---- MODULE Spec2Model ----
(***************************************************************************)
(* Model of source/helper/website_helper.py: the CloudFormation custom     *)
(* resource handler that copies the web application's files into the       *)
(* website bucket, rewrites runtimeConfig.json from the process            *)
(* environment and reports the outcome to the stack's callback URL.        *)
(*                                                                         *)
(* Strings that the code builds or takes apart are sequences of tokens, so *)
(* that '+' is \o and split('.') is a scan for the "." token.              *)
(***************************************************************************)
EXTENDS Integers, Sequences, FiniteSets, TLC

\* How many times the same execution environment is invoked.
MaxInvocations == 2

VARIABLES
    pc,                     \* position of the interpreter in the module
    invocations,            \* lambda_handler calls made so far in this environment
    event,                  \* the event of the current invocation
    environ,                \* os.environ, as seen by the current invocation
    manifestFile,           \* ./webapp-manifest.json on disk
    callbackEndpoint,       \* whether the PUT to ResponseURL can fail
    replace_env_variables,  \* the module-level flag (line 31)
    local_replace,          \* copy_source's local of the same name
    new_variables,          \* copy_source's substitution map
    source_bucket, source_key, website_bucket,
    manifest,               \* the loaded manifest
    idx,                    \* position of the for loop in the manifest
    exc,                    \* the exception in flight, "" when there is none
    calls,                  \* send_response invocations of this invocation
    ops,                    \* object-store operations of this invocation
    store                   \* the destination objects: <<bucket, key>> -> content

vars == <<pc, invocations, event, environ, manifestFile, callbackEndpoint,
          replace_env_variables, local_replace, new_variables,
          source_bucket, source_key, website_bucket, manifest, idx, exc,
          calls, ops, store>>

locals == <<local_replace, new_variables, source_bucket, source_key,
            website_bucket, manifest, idx>>

inputs == <<event, environ, manifestFile, callbackEndpoint>>

----------------------------------------------------------------------------
\* Values

NoText == <<>>

EnvNames == {"SearchEndpoint", "DataplaneEndpoint", "WorkflowEndpoint",
             "DataplaneBucket", "UserPoolId", "AwsRegion", "PoolClientId",
             "IdentityPoolId"}

EnvValue ==
    [n \in EnvNames |->
        CASE n = "SearchEndpoint"    -> <<"search.example.com">>
          [] n = "DataplaneEndpoint" -> <<"https://dataplane.example.com">>
          [] n = "WorkflowEndpoint"  -> <<"https://workflow.example.com">>
          [] n = "DataplaneBucket"   -> <<"dataplane-bucket">>
          [] n = "UserPoolId"        -> <<"us-east-1_pool">>
          [] n = "AwsRegion"         -> <<"us-east-1">>
          [] n = "PoolClientId"      -> <<"client-id">>
          [] n = "IdentityPoolId"    -> <<"identity-pool">>]

\* The environments an invocation can find: every variable set, none, or
\* some but not all.
EnvSubsets == {EnvNames, {}, EnvNames \ {"SearchEndpoint"},
               EnvNames \ {"IdentityPoolId"}, {"SearchEndpoint"}}

Environs == {[n \in S |-> EnvValue[n]] : S \in EnvSubsets}

PropertyNames == {"WebsiteCodeBucket", "WebsiteCodePrefix", "DeploymentBucket"}

\* A property value is a JSON value: a string (its text) or something else.
Str(t) == [isString |-> TRUE, text |-> t]
NotAString == [isString |-> FALSE, text |-> NoText]

DeploymentBuckets ==
    {Str(<<"my-site", ".", "s3-website-us-west-2", ".", "amazonaws", ".", "com">>),
     Str(<<"plain-bucket">>),
     NotAString}

PropertyValue(n, d) ==
    CASE n = "WebsiteCodeBucket" -> Str(<<"code-bucket">>)
      [] n = "WebsiteCodePrefix" -> Str(<<"website">>)
      [] n = "DeploymentBucket"  -> d

\* event["ResourceProperties"]; an event without the field reads like one
\* with no property at all (both raise KeyError at line 74).
ResourcePropertiesSet ==
    {[n \in S |-> PropertyValue(n, d)] :
        S \in SUBSET PropertyNames, d \in DeploymentBuckets}

NoProperties == [n \in {} |-> NotAString]

\* The fields send_response reads from the event.
EnvelopeNames == {"StackId", "RequestId", "LogicalResourceId", "ResponseURL"}

FieldNames == EnvelopeNames \cup {"RequestType"}

\* An event: the top-level fields it has, the value of RequestType ("" when
\* the field is missing) and the resource properties.
MkEvent(f, t, p) == [Fields |-> f, RequestType |-> t, ResourceProperties |-> p]

EventsWith(envelope) ==
    {MkEvent(envelope \cup {"RequestType"}, t, p) :
        t \in {"Create", "Update"}, p \in ResourcePropertiesSet}
    \cup {MkEvent(envelope \cup {"RequestType"}, t, NoProperties) :
        t \in {"Delete", "Ping", "create"}}
    \cup {MkEvent(envelope, "", NoProperties)}

\* No invocation has been made yet.
NoEvent == MkEvent({}, "", NoProperties)

\* Events that carry every field send_response reads.
Events == EventsWith(EnvelopeNames)

\* Events that may also lack one of them.
EventsAny ==
    UNION {EventsWith(e) : e \in {EnvelopeNames, EnvelopeNames \ {"StackId"},
                                  EnvelopeNames \ {"ResponseURL"}}}

ConfigKey == "runtimeConfig.json"

Manifests ==
    {<<"index.html", "runtimeConfig.json", "app.js">>,
     <<"runtimeConfig.json", "index.html">>,
     <<"index.html", "app.js">>,
     <<"runtimeconfig.json">>,
     <<>>}

\* ./webapp-manifest.json: a JSON list of keys, or a file that open() or
\* json.load() rejects.
ManifestFiles ==
    {[status |-> "ok", keys |-> m] : m \in Manifests}
    \cup {[status |-> s, keys |-> <<>>] : s \in {"missing", "unparsable"}}

----------------------------------------------------------------------------
\* Pure functions

Split0Whole(text) == text

RECURSIVE Split0(_)
\* text.split('.')[0]: the tokens before the first "."; the whole text when
\* it holds none (line 76).
Split0(text) ==
    IF text = <<>> \/ Head(text) = "." THEN <<>>
    ELSE <<Head(text)>> \o Split0(Tail(text))

Quote(text) == <<"\"">> \o text \o <<"\"">>

RECURSIVE JsonItems(_)
JsonItems(pairs) ==
    IF pairs = <<>> THEN <<>>
    ELSE Quote(<<pairs[1][1]>>) \o <<": ">> \o Quote(pairs[1][2])
         \o (IF Len(pairs) > 1 THEN <<", ">> ELSE <<>>)
         \o JsonItems(Tail(pairs))

\* json.dumps of a dict of strings, the items in insertion order (line 115).
JsonDumps(pairs) == <<"{">> \o JsonItems(pairs) \o <<"}">>

\* The dict built at lines 96-98 from the values read at lines 85-92.
NewVariables(env) ==
    << <<"SEARCH_ENDPOINT", <<"https://">> \o env["SearchEndpoint"]>>,
       <<"WORKFLOW_API_ENDPOINT", env["WorkflowEndpoint"]>>,
       <<"DATAPLANE_API_ENDPOINT", env["DataplaneEndpoint"]>>,
       <<"DATAPLANE_BUCKET", env["DataplaneBucket"]>>,
       <<"AWS_REGION", env["AwsRegion"]>>,
       <<"USER_POOL_ID", env["UserPoolId"]>>,
       <<"USER_POOL_CLIENT_ID", env["PoolClientId"]>>,
       <<"IDENTITY_POOL_ID", env["IdentityPoolId"]>> >>

\* The lookups of lines 85-92 all succeed.
EnvComplete(env) == EnvNames \subseteq DOMAIN env

\* The object a copy leaves at the destination: the source object's content.
CopyOf(bucket, key) == <<"copy", bucket, key>>

\* The object a put_object leaves at the destination.
BodyOf(text) == <<"body", text>>

Put(st, bucket, key, content) ==
    [k \in DOMAIN st \cup {<<bucket, key>>} |->
        IF k = <<bucket, key>> THEN content ELSE st[k]]

----------------------------------------------------------------------------
\* send_response (lines 34-58)

MsgDeleted == "Resource deletion successful!"
MsgCreated == "Resource creation successful!"
MsgUnexpected == "Unexpected event received from CloudFormation"
MsgProperties == "Failed to retrieve required values from the CloudFormation event"
MsgWrite == "Failed to write file to s3 after variable replacement"
MsgException == "Exception during processing: "

\* How a call of send_response can end: "ok" when opener.open returns,
\* "KeyError" when the event lacks a field the body or the request needs
\* (lines 42-52, before any PUT), "URLError" when the PUT itself raises
\* (line 56).
SendOutcomes ==
    IF ~(EnvelopeNames \subseteq event.Fields) THEN {"KeyError"}
    ELSE IF callbackEndpoint = "unreliable" THEN {"ok", "URLError"}
    ELSE {"ok"}

Call(status, message, detail, outcome) ==
    [Status |-> status, Message |-> message, Detail |-> detail,
     outcome |-> outcome]

\* send_response called with the status and message; it returns to `next`
\* or raises into `handler`.
send_response(status, message, detail, next, handler) ==
    \E o \in SendOutcomes :
        /\ calls' = Append(calls, Call(status, message, detail, o))
        /\ IF o = "ok"
               THEN pc' = next /\ exc' = ""
               ELSE pc' = handler /\ exc' = o

----------------------------------------------------------------------------
\* The initial state: the module has been imported (line 31).

NoLocals ==
    /\ local_replace = FALSE
    /\ new_variables = <<>>
    /\ source_bucket = NoText
    /\ source_key = NoText
    /\ website_bucket = NoText
    /\ manifest = <<>>
    /\ idx = 0

Init ==
    /\ pc = "idle"
    /\ invocations = 0
    /\ event = NoEvent
    /\ environ = [n \in {} |-> NoText]
    /\ manifestFile = [status |-> "missing", keys |-> <<>>]
    /\ callbackEndpoint = "reachable"
    /\ replace_env_variables = FALSE
    /\ NoLocals
    /\ exc = ""
    /\ calls = <<>>
    /\ ops = <<>>
    /\ store = [k \in {} |-> <<>>]

----------------------------------------------------------------------------
\* The runtime calls lambda_handler(event, context). The locals, the record
\* of callbacks and of object-store operations start empty; the module-level
\* flag and the destination objects are what the previous invocation left.
Invoke(events, endpoints) ==
    /\ pc \in {"idle", "returned", "raised"}
    /\ invocations < MaxInvocations
    /\ invocations' = invocations + 1
    /\ event' \in events
    /\ callbackEndpoint' \in endpoints
    /\ pc' = "lambda_handler"
    /\ exc' = ""
    /\ calls' = <<>>
    /\ ops' = <<>>
    /\ local_replace' = FALSE
    /\ new_variables' = <<>>
    /\ source_bucket' = NoText
    /\ source_key' = NoText
    /\ website_bucket' = NoText
    /\ manifest' = <<>>
    /\ idx' = 0
    /\ UNCHANGED <<environ, manifestFile, replace_env_variables, store>>

\* The callback endpoint answers every PUT and the event has every field
\* send_response reads.
InvokeDelivered == Invoke(Events, {"reachable"})

\* The PUT may raise and the event may lack a field send_response reads.
InvokeAny == Invoke(EventsAny, {"reachable", "unreliable"})

RouteDeleteCopies(t) ==
    IF t = "Create" THEN "copy_source"
    ELSE IF t = "Update" THEN "copy_source"
    ELSE IF t = "Delete" THEN "copy_source"
    ELSE "unexpected"

RouteUnknownDeletes(t) ==
    IF t = "Create" THEN "copy_source"
    ELSE IF t = "Update" THEN "copy_source"
    ELSE "delete"

\* The if/elif chain of lines 132-142: the branch taken for a request type.
Route(t) ==
    IF t = "Create" THEN "copy_source"
    ELSE IF t = "Update" THEN "copy_source"
    ELSE IF t = "Delete" THEN "delete"
    ELSE "unexpected"

\* lambda_handler, lines 129-144: dispatch on event['RequestType'].
Dispatch ==
    /\ pc = "lambda_handler"
    /\ IF "RequestType" \notin event.Fields
           THEN pc' = "handler_except" /\ exc' = "KeyError" /\ UNCHANGED calls
       ELSE IF Route(event.RequestType) = "copy_source"
           THEN pc' = "copy_source" /\ UNCHANGED <<exc, calls>>
       ELSE IF Route(event.RequestType) = "delete"
           THEN send_response("SUCCESS", MsgDeleted, "", "returned",
                              "handler_except")
       ELSE send_response("FAILED", MsgUnexpected, "", "returned",
                          "handler_except")
    /\ UNCHANGED <<invocations, inputs, replace_env_variables, locals, ops, store>>

KeyErrorFallsThrough == "read_environ"

\* Where copy_source goes once the handler of line 77 has sent its response:
\* lines 81-122 are the else block of the try, so the function returns.
KeyErrorResume == "returned"

\* copy_source, lines 73-80: the three resource properties.
ExtractProperties ==
    /\ pc = "copy_source"
    /\ LET props == event.ResourceProperties IN
       IF ~(PropertyNames \subseteq DOMAIN props)
           THEN \* KeyError, caught at line 77
                /\ send_response("FAILED", MsgProperties, "", KeyErrorResume,
                                 "handler_except")
                /\ UNCHANGED locals
       ELSE IF ~props["DeploymentBucket"].isString
           THEN \* .split raises AttributeError, which line 77 does not catch
                /\ pc' = "handler_except"
                /\ exc' = "AttributeError"
                /\ source_bucket' = props["WebsiteCodeBucket"].text
                /\ source_key' = props["WebsiteCodePrefix"].text
                /\ UNCHANGED <<calls, local_replace, new_variables,
                               website_bucket, manifest, idx>>
       ELSE /\ source_bucket' = props["WebsiteCodeBucket"].text
            /\ source_key' = props["WebsiteCodePrefix"].text
            /\ website_bucket' = Split0(props["DeploymentBucket"].text)
            /\ pc' = "read_environ"
            /\ UNCHANGED <<exc, calls, local_replace, new_variables, manifest, idx>>
    /\ UNCHANGED <<invocations, inputs, replace_env_variables, ops, store>>

\* The read as it would be with replace_env_variables declared global and
\* the except branch leaving it alone.
ReadEnvironmentGlobal ==
    /\ pc = "read_environ"
    /\ environ' \in Environs
    /\ IF EnvComplete(environ')
           THEN /\ new_variables' = NewVariables(environ')
                /\ replace_env_variables' = TRUE
           ELSE UNCHANGED <<new_variables, replace_env_variables>>
    /\ local_replace' = replace_env_variables'
    /\ pc' = "open_manifest"
    /\ UNCHANGED <<invocations, event, manifestFile, callbackEndpoint,
                   source_bucket, source_key, website_bucket, manifest, idx,
                   exc, calls, ops, store>>

\* copy_source, lines 84-101: the eight environment variables, as the
\* process environment holds them at this invocation. The assignments of
\* lines 94 and 99 bind the function's local; the module-level flag is not
\* declared global and keeps its value.
ReadEnvironment ==
    /\ pc = "read_environ"
    /\ environ' \in Environs
    /\ IF EnvComplete(environ')
           THEN /\ new_variables' = NewVariables(environ')
                /\ local_replace' = TRUE
           ELSE /\ local_replace' = FALSE
                /\ UNCHANGED new_variables
    /\ pc' = "open_manifest"
    /\ UNCHANGED <<invocations, event, manifestFile, callbackEndpoint,
                   replace_env_variables, source_bucket, source_key,
                   website_bucket, manifest, idx, exc, calls, ops, store>>

ManifestFaultEscapes == "handler_except"

\* Where a fault of open() or json.load() goes: line 103 is inside the try
\* of line 81, so to the except of line 117.
ManifestFaultTarget == "copy_except"

\* copy_source, lines 103-104: open and parse ./webapp-manifest.json.
LoadManifest ==
    /\ pc = "open_manifest"
    /\ manifestFile' \in ManifestFiles
    /\ IF manifestFile'.status = "ok"
           THEN /\ manifest' = manifestFile'.keys
                /\ idx' = 1
                /\ pc' = IF manifest' = <<>> THEN "copy_else" ELSE "for"
                /\ UNCHANGED exc
           ELSE /\ pc' = ManifestFaultTarget
                /\ exc' = IF manifestFile'.status = "missing"
                              THEN "FileNotFoundError" ELSE "JSONDecodeError"
                /\ UNCHANGED <<manifest, idx>>
    /\ UNCHANGED <<invocations, event, environ, callbackEndpoint,
                   replace_env_variables, local_replace, new_variables,
                   source_bucket, source_key, website_bucket, calls, ops, store>>

\* How a call to the object store can end.
S3Outcomes == {"ok", "ClientError"}

\* One object-store call as the store sees it: `arg` is the source of a copy
\* or the body of a put.
Op(kind, arg, bucket, key, outcome) ==
    [op |-> kind, Arg |-> arg, Bucket |-> bucket, Key |-> key,
     ok |-> (outcome = "ok")]

NextKeySkipsOne ==
    /\ idx' = idx + 2
    /\ pc' = IF idx + 2 > Len(manifest) THEN "copy_else" ELSE "for"

\* The end of one iteration of the for loop, and of the with block after
\* the last one.
NextKey ==
    /\ idx' = idx + 1
    /\ pc' = IF idx + 1 > Len(manifest) THEN "copy_else" ELSE "for"

RewriteWhateverTheFlag(flag, key) == key = ConfigKey

RewriteAnyCase(flag, key) ==
    flag = TRUE /\ key \in {ConfigKey, "runtimeconfig.json"}

\* The condition of line 113.
ShouldRewrite(flag, key) == flag = TRUE /\ key = ConfigKey

\* copy_source, lines 106-113: copy the current key, then decide whether
\* runtimeConfig.json is to be rewritten.
CopyKey ==
    /\ pc = "for"
    /\ idx <= Len(manifest)
    /\ LET key == manifest[idx]
           src == [Bucket |-> source_bucket,
                   Key |-> source_key \o <<"/">> \o <<key>>]
       IN \E o \in S3Outcomes :
           /\ ops' = Append(ops, Op("copy", src, website_bucket, key, o))
           /\ IF o = "ok"
                  THEN /\ store' = Put(store, website_bucket, key,
                                       CopyOf(src.Bucket, src.Key))
                       /\ IF ShouldRewrite(local_replace, key)
                              THEN pc' = "write_to_s3" /\ UNCHANGED idx
                              ELSE NextKey
                       /\ UNCHANGED exc
                  ELSE /\ pc' = "copy_except"
                       /\ exc' = o
                       /\ UNCHANGED <<store, idx>>
    /\ UNCHANGED <<invocations, inputs, replace_env_variables, local_replace,
                   new_variables, source_bucket, source_key, website_bucket,
                   manifest, calls>>

\* copy_source, line 115, and write_to_s3, lines 61-69. A put_object that
\* raises is caught inside write_to_s3, which reports FAILED and returns
\* normally to the loop; only a fault of that send_response leaves the loop.
WriteToS3 ==
    /\ pc = "write_to_s3"
    /\ LET key == manifest[idx]
           body == JsonDumps(new_variables)
       IN \E o \in S3Outcomes :
           /\ ops' = Append(ops, Op("put", body, website_bucket, key, o))
           /\ IF o = "ok"
                  THEN /\ store' = Put(store, website_bucket, key, BodyOf(body))
                       /\ NextKey
                       /\ UNCHANGED <<exc, calls>>
                  ELSE /\ UNCHANGED store
                       /\ \E s \in SendOutcomes :
                           /\ calls' = Append(calls, Call("FAILED", MsgWrite, "", s))
                           /\ IF s = "ok"
                                  THEN NextKey /\ exc' = ""
                                  ELSE /\ pc' = "copy_except"
                                       /\ exc' = s
                                       /\ UNCHANGED idx
    /\ UNCHANGED <<invocations, inputs, replace_env_variables, local_replace,
                   new_variables, source_bucket, source_key, website_bucket,
                   manifest>>

\* copy_source, lines 117-119: anything raised by lines 82-115.
CopyExcept ==
    /\ pc = "copy_except"
    /\ send_response("FAILED", MsgUnexpected, "", "returned", "handler_except")
    /\ UNCHANGED <<invocations, inputs, replace_env_variables, locals, ops, store>>

\* copy_source, lines 120-122: the try block ended without raising.
CopyElse ==
    /\ pc = "copy_else"
    /\ send_response("SUCCESS", MsgCreated, "", "returned", "handler_except")
    /\ UNCHANGED <<invocations, inputs, replace_env_variables, locals, ops, store>>

\* lambda_handler, lines 145-147: anything raised by lines 130-144. A fault
\* of this send_response leaves lambda_handler.
HandlerExcept ==
    /\ pc = "handler_except"
    /\ send_response("FAILED", MsgException, exc, "returned", "raised")
    /\ UNCHANGED <<invocations, inputs, replace_env_variables, locals, ops, store>>

Steps ==
    \/ Dispatch
    \/ ExtractProperties
    \/ ReadEnvironment
    \/ LoadManifest
    \/ CopyKey
    \/ WriteToS3
    \/ CopyExcept
    \/ CopyElse
    \/ HandlerExcept

\* Invocations whose callback is delivered whenever it is sent.
Next == InvokeDelivered \/ Steps

Spec == Init /\ [][Next]_vars

\* Invocations whose callback may fail to be sent.
NextNotify == InvokeAny \/ Steps

SpecNotify == Init /\ [][NextNotify]_vars

----------------------------------------------------------------------------
\* Vocabulary of the properties

\* lambda_handler has returned normally.
Returned == pc = "returned"

CreateOrUpdate ==
    /\ "RequestType" \in event.Fields
    /\ event.RequestType \in {"Create", "Update"}

\* A callback as the stack receives it.
Sent(status, message) ==
    [Status |-> status, Message |-> message, Detail |-> "", outcome |-> "ok"]

Indices(seq) == 1 .. Len(seq)

FailedPuts == {j \in Indices(ops) : ops[j].op = "put" /\ ~ops[j].ok}

FailedCopies == {j \in Indices(ops) : ops[j].op = "copy" /\ ~ops[j].ok}

SuccessSent ==
    \E j \in Indices(calls) :
        /\ calls[j].Status = "SUCCESS"
        /\ calls[j].Message = "Resource creation successful!"

\* The keys of the copies made so far, in the order they were made.
CopiedKeys == [j \in Indices(SelectSeq(ops, LAMBDA o : o.op = "copy")) |->
                  SelectSeq(ops, LAMBDA o : o.op = "copy")[j].Key]

----------------------------------------------------------------------------
\* C1: every invocation sends exactly one callback before lambda_handler
\* returns, whatever the request type and whatever the outcomes of the
\* property extraction, the environment read, the manifest load, each copy
\* and each put_object: never a second one, and one by the time it returns.
C1_ExactlyOneCallback ==
    /\ Len(calls) <= 1
    /\ Returned => Len(calls) = 1

\* C2: in a Create/Update invocation, a failed put_object of
\* runtimeConfig.json is the last object-store operation of the invocation,
\* and the response sent is FAILED with "Failed to write file to s3 after
\* variable replacement".
C2_OverwriteFailureAborts ==
    (CreateOrUpdate /\ FailedPuts # {}) =>
        /\ \A j \in FailedPuts : j = Len(ops)
        /\ Returned =>
               calls = <<Sent("FAILED",
                              "Failed to write file to s3 after variable replacement")>>

\* C3: in a Create/Update invocation, SUCCESS "Resource creation
\* successful!" is sent only when every copy and every put_object attempted
\* has succeeded and every manifest key has been copied.
C3_SuccessOnlyAfterAllSucceed ==
    (CreateOrUpdate /\ SuccessSent) =>
        /\ \A j \in Indices(ops) : ops[j].ok
        /\ CopiedKeys = manifest

\* C4: no fault leaves lambda_handler: a fault raised during dispatch or
\* below it, a missing event field or a fault inside send_response included,
\* ends with a FAILED callback delivered and lambda_handler returning
\* normally.
C4_NoFaultEscapes ==
    /\ pc # "raised"
    /\ (Returned /\ (FailedCopies # {} \/ \E j \in Indices(calls) :
                                              calls[j].outcome # "ok")) =>
           \E j \in Indices(calls) :
               calls[j].Status = "FAILED" /\ calls[j].outcome = "ok"

\* C5: a callback that fails to be delivered is not retried: in every
\* invocation at most one call of send_response reaches its PUT to the
\* callback URL, also when that PUT raises.
C5_CallbackNotRetried ==
    Cardinality({j \in Indices(calls) : calls[j].outcome \in {"ok", "URLError"}}) <= 1

\* The keys of the manifest before position j hold an object in the
\* destination bucket.
EarlierKeysStored(j) ==
    \A k \in 1 .. (j - 1) :
        /\ <<website_bucket, manifest[k]>> \in DOMAIN store
        /\ store[<<website_bucket, manifest[k]>>][1] \in {"copy", "body"}

\* C6: in a Create/Update invocation, a failed copy is the last object-store
\* operation of the invocation, the keys before it stay in the destination,
\* and the response sent is FAILED with "Unexpected event received from
\* CloudFormation".
C6_CopyFailureAborts ==
    (CreateOrUpdate /\ FailedCopies # {}) =>
        /\ \A j \in FailedCopies : j = Len(ops)
        /\ EarlierKeysStored(idx)
        /\ Returned =>
               calls = <<Sent("FAILED",
                              "Unexpected event received from CloudFormation")>>

\* The event names a request type, and it is this one.
RequestTypeIs(t) == "RequestType" \in event.Fields /\ event.RequestType = t

PropertyMissing ==
    \E n \in {"WebsiteCodeBucket", "WebsiteCodePrefix", "DeploymentBucket"} :
        n \notin DOMAIN event.ResourceProperties

\* C7: a Create/Update event that lacks WebsiteCodeBucket, WebsiteCodePrefix
\* or DeploymentBucket sends exactly one callback, FAILED with "Failed to
\* retrieve required values from the CloudFormation event", attempts no copy
\* and no put, and never loads the manifest.
C7_MissingPropertyFails ==
    (CreateOrUpdate /\ PropertyMissing) =>
        /\ pc \in {"lambda_handler", "copy_source", "returned"}
        /\ ops = <<>>
        /\ idx = 0 /\ manifest = <<>>
        /\ calls = IF Returned
                       THEN <<Sent("FAILED",
                                   "Failed to retrieve required values from the CloudFormation event")>>
                       ELSE <<>>

C7_Witness ==
    /\ CreateOrUpdate /\ PropertyMissing /\ Returned
    /\ "WebsiteCodePrefix" \notin DOMAIN event.ResourceProperties
    /\ "WebsiteCodeBucket" \in DOMAIN event.ResourceProperties
    /\ Len(calls) = 1 /\ calls[1].Status = "FAILED"

\* C8: a Delete event sends exactly one callback, SUCCESS with "Resource
\* deletion successful!", attempts no copy and no put, and no step of the
\* invocation changes an object of the destination.
C8_DeleteSucceeds ==
    /\ [](RequestTypeIs("Delete") =>
            /\ pc \in {"lambda_handler", "returned"}
            /\ ops = <<>>
            /\ calls = IF Returned
                           THEN <<Sent("SUCCESS", "Resource deletion successful!")>>
                           ELSE <<>>)
    /\ [][RequestTypeIs("Delete")' => store' = store]_vars

C8_Witness ==
    /\ RequestTypeIs("Delete") /\ Returned
    /\ Len(calls) = 1 /\ calls[1].Status = "SUCCESS"
    /\ store # << >>

\* C9: an event whose RequestType is none of Create, Update and Delete
\* sends exactly one callback, FAILED with "Unexpected event received from
\* CloudFormation", and attempts no copy and no put.
C9_UnknownRequestTypeFails ==
    ("RequestType" \in event.Fields
        /\ event.RequestType \notin {"Create", "Update", "Delete"}) =>
        /\ pc \in {"lambda_handler", "returned"}
        /\ ops = <<>>
        /\ calls = IF Returned
                       THEN <<Sent("FAILED",
                                   "Unexpected event received from CloudFormation")>>
                       ELSE <<>>

C9_Witness ==
    /\ RequestTypeIs("Ping") /\ Returned
    /\ Len(calls) = 1 /\ calls[1].Status = "FAILED"

\* The text json.dumps gives for the eight fixed keys and the values of
\* EnvValue, SEARCH_ENDPOINT carrying the "https://" prefix.
ExpectedRuntimeConfig ==
    <<"{",
      "\"", "SEARCH_ENDPOINT", "\"", ": ", "\"", "https://", "search.example.com", "\"", ", ",
      "\"", "WORKFLOW_API_ENDPOINT", "\"", ": ", "\"", "https://workflow.example.com", "\"", ", ",
      "\"", "DATAPLANE_API_ENDPOINT", "\"", ": ", "\"", "https://dataplane.example.com", "\"", ", ",
      "\"", "DATAPLANE_BUCKET", "\"", ": ", "\"", "dataplane-bucket", "\"", ", ",
      "\"", "AWS_REGION", "\"", ": ", "\"", "us-east-1", "\"", ", ",
      "\"", "USER_POOL_ID", "\"", ": ", "\"", "us-east-1_pool", "\"", ", ",
      "\"", "USER_POOL_CLIENT_ID", "\"", ": ", "\"", "client-id", "\"", ", ",
      "\"", "IDENTITY_POOL_ID", "\"", ": ", "\"", "identity-pool", "\"",
      "}">>

AllEightSet ==
    DOMAIN environ = {"SearchEndpoint", "DataplaneEndpoint", "WorkflowEndpoint",
                      "DataplaneBucket", "UserPoolId", "AwsRegion",
                      "PoolClientId", "IdentityPoolId"}

\* C10: a Create/Update invocation that finds all eight environment
\* variables and has runtimeConfig.json in its manifest, and reports
\* SUCCESS, leaves as the destination runtimeConfig.json the JSON text of
\* the substitution map with the eight fixed keys, never the plain copy.
C10_SuccessMeansRewritten ==
    (/\ CreateOrUpdate /\ Returned /\ SuccessSent
     /\ AllEightSet
     /\ \E k \in Indices(manifest) : manifest[k] = "runtimeConfig.json") =>
        /\ <<website_bucket, "runtimeConfig.json">> \in DOMAIN store
        /\ store[<<website_bucket, "runtimeConfig.json">>]
               = <<"body", ExpectedRuntimeConfig>>

\* The properties are there and DeploymentBucket is a string, and
\* copy_source has read the environment in this invocation.
EnvironRead ==
    /\ CreateOrUpdate /\ ~PropertyMissing
    /\ event.ResourceProperties["DeploymentBucket"].isString
    /\ pc \notin {"lambda_handler", "copy_source", "read_environ"}

\* Some copy of the key has succeeded in this invocation.
CopiedNow(key) ==
    \E j \in Indices(ops) : ops[j].op = "copy" /\ ops[j].ok /\ ops[j].Key = key

\* The manifest has been loaded in this invocation.
ManifestLoaded == idx > 0

\* C11: a Create/Update invocation that finds none or only some of the
\* eight environment variables attempts no put_object, reports SUCCESS when
\* the manifest loads and every copy succeeds (the missing variables are no
\* error), and the runtimeConfig.json it copies is left as the plain copy
\* of the source object.
C11_PartialBundleCopiesVerbatim ==
    (EnvironRead /\ ~AllEightSet) =>
        /\ \A j \in Indices(ops) : ops[j].op = "copy"
        /\ pc # "write_to_s3"
        /\ (Returned /\ ManifestLoaded /\ FailedCopies = {}) =>
               calls = <<Sent("SUCCESS", "Resource creation successful!")>>
        /\ CopiedNow("runtimeConfig.json") =>
               /\ <<website_bucket, "runtimeConfig.json">> \in DOMAIN store
               /\ store[<<website_bucket, "runtimeConfig.json">>]
                      = <<"copy", <<"code-bucket">>,
                          <<"website", "/", "runtimeConfig.json">> >>

C11_Witness ==
    /\ EnvironRead /\ Returned
    /\ DOMAIN environ = {"SearchEndpoint", "DataplaneEndpoint", "WorkflowEndpoint",
                         "DataplaneBucket", "UserPoolId", "AwsRegion",
                         "PoolClientId"}
    /\ CopiedNow("runtimeConfig.json")
    /\ \E k \in DOMAIN store : store[k][1] = "body"
    /\ calls = <<Sent("SUCCESS", "Resource creation successful!")>>

\* The destination bucket of the two DeploymentBucket values of the model.
ExpectedBucket ==
    IF event.ResourceProperties["DeploymentBucket"].text = <<"plain-bucket">>
        THEN <<"plain-bucket">>
        ELSE <<"my-site">>

Copies == SelectSeq(ops, LAMBDA o : o.op = "copy")

\* What the invocation is to leave at a manifest key.
ExpectedContent(key) ==
    IF key = "runtimeConfig.json" /\ AllEightSet
        THEN <<"body", ExpectedRuntimeConfig>>
        ELSE <<"copy", <<"code-bucket">>, <<"website", "/", key>> >>

\* C12: in a Create/Update invocation whose manifest loads and whose
\* object-store operations all succeed, the copies made are those of the
\* manifest keys, once each and in manifest order, from
\* code-bucket/website/k to k in the destination bucket; at the end every
\* manifest key holds the source content (runtimeConfig.json the rewritten
\* one when substitution is active) and no other key has been written.
C12_EveryKeyCopiedOnceInOrder ==
    (EnvironRead /\ ManifestLoaded /\ \A j \in Indices(ops) : ops[j].ok) =>
        /\ Len(Copies) <= Len(manifest)
        /\ \A j \in Indices(Copies) :
               /\ Copies[j].Key = manifest[j]
               /\ Copies[j].Bucket = ExpectedBucket
               /\ Copies[j].Arg = [Bucket |-> <<"code-bucket">>,
                                   Key |-> <<"website", "/", manifest[j]>>]
        /\ \A j \in Indices(ops) :
               \E k \in Indices(manifest) : ops[j].Key = manifest[k]
        /\ Returned =>
               /\ Len(Copies) = Len(manifest)
               /\ \A k \in Indices(manifest) :
                      /\ <<ExpectedBucket, manifest[k]>> \in DOMAIN store
                      /\ store[<<ExpectedBucket, manifest[k]>>]
                             = ExpectedContent(manifest[k])

C12_Witness ==
    /\ EnvironRead /\ ManifestLoaded /\ Returned
    /\ \A j \in Indices(ops) : ops[j].ok
    /\ manifest = <<"index.html", "runtimeConfig.json", "app.js">>
    /\ AllEightSet
    /\ Len(ops) = 4

\* C13: every copy and every put of an invocation goes to the bucket named
\* by the part of DeploymentBucket before its first '.' ("my-site" for
\* "my-site.s3-website-us-west-2.amazonaws.com", the whole value for
\* "plain-bucket"), the same bucket for every manifest key.
C13_DestinationIsFirstSegment ==
    EnvironRead =>
        /\ website_bucket = ExpectedBucket
        /\ \A j \in Indices(ops) : ops[j].Bucket = ExpectedBucket
        /\ \A k \in DOMAIN store : k[1] \in {<<"my-site">>, <<"plain-bucket">>}

C13_Witness ==
    /\ EnvironRead /\ Returned
    /\ event.ResourceProperties["DeploymentBucket"].text
           = <<"my-site", ".", "s3-website-us-west-2", ".", "amazonaws", ".", "com">>
    /\ Len(ops) = 4
    /\ \A j \in Indices(ops) : ops[j].ok /\ ops[j].Bucket = <<"my-site">>
    /\ \E j \in Indices(ops) : ops[j].op = "put"

\* C14: a put_object is attempted only for the key "runtimeConfig.json",
\* to the bucket and key of the copy made just before it, which succeeded;
\* nothing comes between that copy and the put, so the put precedes the
\* copy of the next key, and a failed copy is followed by no put.
C14_OverrideFollowsItsCopy ==
    \A j \in Indices(ops) :
        /\ ops[j].op = "put" =>
               /\ j > 1
               /\ ops[j - 1].op = "copy" /\ ops[j - 1].ok
               /\ ops[j].Key = "runtimeConfig.json"
               /\ ops[j - 1].Key = ops[j].Key
               /\ ops[j - 1].Bucket = ops[j].Bucket
        /\ (ops[j].op = "copy" /\ ~ops[j].ok) => j = Len(ops)
        /\ (pc = "write_to_s3" /\ j = Len(ops)) =>
               ops[j].op = "copy" /\ ops[j].ok /\ ops[j].Key = "runtimeConfig.json"

C14_Witness ==
    /\ Returned
    /\ manifest = <<"index.html", "runtimeConfig.json", "app.js">>
    /\ Len(ops) = 4
    /\ ops[2].op = "copy" /\ ops[3].op = "put" /\ ops[4].op = "copy"
    /\ ops[3].ok

\* C15: in a reused execution environment the module-level
\* replace_env_variables is False in every state, the flag copy_source
\* tests is the one it derived from the environment of the current
\* invocation, and a put_object is attempted only in an invocation that
\* found all eight variables, whatever the invocations before it found.
C15_FlagDerivedPerInvocation ==
    /\ replace_env_variables = FALSE
    /\ EnvironRead => (local_replace = AllEightSet)
    /\ (\E j \in Indices(ops) : ops[j].op = "put") => (EnvironRead /\ AllEightSet)
    /\ pc = "write_to_s3" => AllEightSet

\* The second invocation finds a partial bundle after a first one that
\* found a complete one and rewrote the file in the other bucket.
C15_Witness ==
    /\ invocations = 2 /\ Returned /\ EnvironRead
    /\ ~AllEightSet /\ DOMAIN environ # {}
    /\ website_bucket = <<"plain-bucket">>
    /\ CopiedNow("runtimeConfig.json")
    /\ <<(<<"my-site">>), "runtimeConfig.json">> \in DOMAIN store
    /\ store[<<(<<"my-site">>), "runtimeConfig.json">>][1] = "body"
    /\ \A j \in Indices(ops) : ops[j].op = "copy"

\* The properties were extracted and the load of the manifest has failed in
\* this invocation.
ManifestLoadFailed ==
    /\ EnvironRead
    /\ pc # "open_manifest"
    /\ ~ManifestLoaded

\* C16: a Create/Update invocation with the three properties whose manifest
\* cannot be opened or parsed attempts no copy and no put and sends exactly
\* one callback, FAILED with "Unexpected event received from
\* CloudFormation".
C16_ManifestFaultFails ==
    ManifestLoadFailed =>
        /\ pc \in {"copy_except", "returned"}
        /\ ops = <<>>
        /\ manifestFile.status \in {"missing", "unparsable"}
        /\ calls = IF Returned
                       THEN <<Sent("FAILED",
                                   "Unexpected event received from CloudFormation")>>
                       ELSE <<>>

C16_Witness ==
    /\ ManifestLoadFailed /\ Returned
    /\ manifestFile.status = "unparsable"
    /\ AllEightSet
    /\ Len(calls) = 1 /\ calls[1].Status = "FAILED"
====
